---- MODULE Spec2Model ----
(***************************************************************************)
(* Model of inventory_system.py: an in-memory inventory (a Python dict     *)
(* from item name to quantity), the operations add_item, remove_item,      *)
(* get_qty, check_low_items, print_data, and its persistence to a JSON     *)
(* file with load_data and save_data.                                      *)
(*                                                                         *)
(* Python values are tagged records, so that isinstance checks and the     *)
(* TypeError of mixed arithmetic are decided as Python decides them.       *)
(* Strings are sequences of one-character strings, so that the JSON text   *)
(* written by json.dump and read by json.load is modelled character by     *)
(* character.  A dict is a sequence of key/value entries in insertion      *)
(* order with distinct keys, which is the order a Python dict iterates in. *)
(***************************************************************************)
EXTENDS Integers, Sequences, FiniteSets, TLC

VARIABLES
    stock_data,   \* the inventory dict: Seq of [key, value], insertion order
    my_logs,      \* the caller's mutation log (main's my_logs)
    file,         \* inventory.json on disk: [exists, text]
    call,         \* the last call made: [fn, item, qty, logs, threshold]
    ret,          \* what the last call returned
    raised,       \* the exception the last call let escape, or "None"
    logged,       \* levels of the logging records the last call emitted
    stdout        \* lines the last call printed

vars == <<stock_data, my_logs, file, call, ret, raised, logged, stdout>>

------------------------------------------------------------------------------
(* Bounds of the model.                                                    *)

\* my_logs grows to at most this many entries
MaxLogs == 3
\* add_item and remove_item are followed only while |quantity| stays within this
MaxStock == 3

------------------------------------------------------------------------------
(* Python values.                                                          *)

PyInt(n) == [type |-> "int", n |-> n, s |-> <<>>]
PyStr(s) == [type |-> "str", n |-> 0, s |-> s]
PyNone == [type |-> "NoneType", n |-> 0, s |-> <<>>]

\* isinstance(v, str), isinstance(v, int)
IsStr(v) == v.type = "str"
IsInt(v) == v.type = "int"

\* `not v` for a str or an int
Falsy(v) ==
    \/ IsStr(v) /\ v.s = <<>>
    \/ IsInt(v) /\ v.n = 0
    \/ v.type = "NoneType"

apple == <<"a", "p", "p", "l", "e">>
banana == <<"b", "a", "n", "a", "n", "a">>
ten == <<"t", "e", "n">>

\* item names the callers use
Items == {apple, banana}
\* item arguments: valid names, the empty string, and the number 123
ItemArgs == {PyStr(i) : i \in Items} \cup {PyStr(<<>>), PyInt(123)}
\* quantity arguments: integers of each sign, and the string "ten"
Quantities == {-2, 0, 1, 3}
QtyArgs == {PyInt(q) : q \in Quantities} \cup {PyStr(ten)}

------------------------------------------------------------------------------
(* dict operations.                                                        *)

Keys(d) == [i \in 1..Len(d) |-> d[i].key]

\* key in d
dict_has(d, k) == \E i \in 1..Len(d) : d[i].key = k

dict_index(d, k) == CHOOSE i \in 1..Len(d) : d[i].key = k

\* d[k], for a key that is present
dict_getitem(d, k) == d[dict_index(d, k)].value

\* d.get(k, default)
dict_get(d, k, default) == IF dict_has(d, k) THEN dict_getitem(d, k) ELSE default

\* d[k] = v: a present key keeps its place, a new key goes last
dict_setitem(d, k, v) ==
    IF dict_has(d, k)
    THEN [d EXCEPT ![dict_index(d, k)].value = v]
    ELSE Append(d, [key |-> k, value |-> v])

\* del d[k]
dict_delitem(d, k) == SelectSeq(d, LAMBDA e : e.key # k)

------------------------------------------------------------------------------
(* The inventory operations, as functions from their arguments to their    *)
(* outcome: the dict and the log list after the call, the logging records  *)
(* emitted, the value returned and the exception that escapes.             *)

Outcome(sd, logs, lg, r, exc) ==
    [stock_data |-> sd, logs |-> logs, logged |-> lg, ret |-> r, raised |-> exc]

\* the text of a log entry, without its timestamp: "Added {qty} of {item}"
LogMessage(item, qty) == [qty |-> qty.n, item |-> item.s]

\* add_item storing the quantity given instead of adding it to the stored one
add_item_overwrite(sd, item, qty, logs) ==
    IF ~IsStr(item) \/ Falsy(item)
    THEN Outcome(sd, logs, <<"WARNING">>, PyNone, "None")
    ELSE IF ~IsInt(qty)
    THEN Outcome(sd, logs, <<"WARNING">>, PyNone, "None")
    ELSE Outcome(dict_setitem(sd, item.s, qty), Append(logs, LogMessage(item, qty)),
                 <<"INFO">>, PyNone, "None")

\* add_item without the check of the quantity's type
add_item_unchecked_qty(sd, item, qty, logs) ==
    IF ~IsStr(item) \/ Falsy(item)
    THEN Outcome(sd, logs, <<"WARNING">>, PyNone, "None")
    ELSE LET old == dict_get(sd, item.s, PyInt(0))
         IN  Outcome(dict_setitem(sd, item.s, PyInt(old.n + qty.n)),
                     Append(logs, LogMessage(item, qty)), <<"INFO">>, PyNone, "None")

\* add_item with logs.insert(0, log_message) for logs.append(log_message)
add_item_prepend(sd, item, qty, logs) ==
    IF ~IsStr(item) \/ Falsy(item)
    THEN Outcome(sd, logs, <<"WARNING">>, PyNone, "None")
    ELSE IF ~IsInt(qty)
    THEN Outcome(sd, logs, <<"WARNING">>, PyNone, "None")
    ELSE LET old == dict_get(sd, item.s, PyInt(0))
         IN  Outcome(dict_setitem(sd, item.s, PyInt(old.n + qty.n)),
                     <<LogMessage(item, qty)>> \o logs, <<"INFO">>, PyNone, "None")

add_item(sd, item, qty, logs) ==
    IF ~IsStr(item) \/ Falsy(item)
    THEN Outcome(sd, logs, <<"WARNING">>, PyNone, "None")
    ELSE IF ~IsInt(qty)
    THEN Outcome(sd, logs, <<"WARNING">>, PyNone, "None")
    ELSE LET old == dict_get(sd, item.s, PyInt(0))
         IN  IF ~IsInt(old)
             \* str + int, evaluated before anything is stored
             THEN Outcome(sd, logs, <<>>, PyNone, "TypeError")
             ELSE Outcome(dict_setitem(sd, item.s, PyInt(old.n + qty.n)),
                          Append(logs, LogMessage(item, qty)),
                          <<"INFO">>, PyNone, "None")

\* remove_item deleting the key only below zero: < for <=
remove_item_keeps_zero(sd, item, qty) ==
    IF ~IsStr(item) \/ Falsy(item) \/ ~IsInt(qty) \/ ~dict_has(sd, item.s)
    THEN Outcome(sd, <<>>, <<"WARNING">>, PyNone, "None")
    ELSE LET old == dict_getitem(sd, item.s)
         IN  IF ~IsInt(old)
             THEN Outcome(sd, <<>>, <<"ERROR">>, PyNone, "None")
             ELSE IF old.n - qty.n < 0
             THEN Outcome(dict_delitem(sd, item.s), <<>>, <<"INFO">>, PyNone, "None")
             ELSE Outcome(dict_setitem(sd, item.s, PyInt(old.n - qty.n)),
                          <<>>, <<>>, PyNone, "None")

\* remove_item reading the stored quantity with stock_data.get(item, 0)
remove_item_default_zero(sd, item, qty) ==
    IF ~IsStr(item) \/ Falsy(item) \/ ~IsInt(qty)
    THEN Outcome(sd, <<>>, <<"WARNING">>, PyNone, "None")
    ELSE LET old == dict_get(sd, item.s, PyInt(0))
         IN  IF ~IsInt(old)
             THEN Outcome(sd, <<>>, <<"ERROR">>, PyNone, "None")
             ELSE IF old.n - qty.n <= 0
             THEN Outcome(dict_delitem(sd, item.s), <<>>, <<"INFO">>, PyNone, "None")
             ELSE Outcome(dict_setitem(sd, item.s, PyInt(old.n - qty.n)),
                          <<>>, <<>>, PyNone, "None")

remove_item(sd, item, qty) ==
    IF ~IsStr(item) \/ Falsy(item)
    THEN Outcome(sd, <<>>, <<"WARNING">>, PyNone, "None")
    ELSE IF ~IsInt(qty)
    THEN Outcome(sd, <<>>, <<"WARNING">>, PyNone, "None")
    ELSE IF ~dict_has(sd, item.s)
    \* KeyError, caught
    THEN Outcome(sd, <<>>, <<"WARNING">>, PyNone, "None")
    ELSE LET old == dict_getitem(sd, item.s)
         IN  IF ~IsInt(old)
             \* TypeError of str - int, caught
             THEN Outcome(sd, <<>>, <<"ERROR">>, PyNone, "None")
             ELSE IF old.n - qty.n <= 0
             THEN Outcome(dict_delitem(sd, item.s), <<>>, <<"INFO">>, PyNone, "None")
             ELSE Outcome(dict_setitem(sd, item.s, PyInt(old.n - qty.n)),
                          <<>>, <<>>, PyNone, "None")

get_qty(sd, item) == dict_get(sd, item, PyInt(0))

\* check_low_items with qty <= threshold for qty < threshold
check_low_items_inclusive(sd, threshold) ==
    IF \E i \in 1..Len(sd) : ~IsInt(sd[i].value)
    THEN Outcome(sd, <<>>, <<>>, PyNone, "TypeError")
    ELSE Outcome(sd, <<>>, <<>>,
                 Keys(SelectSeq(sd, LAMBDA e : e.value.n <= threshold)), "None")

\* [item for item, qty in stock_data.items() if qty < threshold]; comparing a
\* str quantity with the int threshold raises TypeError out of the call
check_low_items(sd, threshold) ==
    IF \E i \in 1..Len(sd) : ~IsInt(sd[i].value)
    THEN Outcome(sd, <<>>, <<>>, PyNone, "TypeError")
    ELSE Outcome(sd, <<>>, <<>>,
                 Keys(SelectSeq(sd, LAMBDA e : e.value.n < threshold)), "None")

\* threshold=5
DefaultThreshold == 5

\* the lines print_data writes
print_data(sd) ==
    <<[kind |-> "header", key |-> <<>>, value |-> PyNone]>>
    \o (IF Len(sd) = 0
        THEN <<[kind |-> "empty", key |-> <<>>, value |-> PyNone]>>
        ELSE <<>>)
    \o [i \in 1..Len(sd) |-> [kind |-> "item", key |-> sd[i].key, value |-> sd[i].value]]
    \o <<[kind |-> "footer", key |-> <<>>, value |-> PyNone]>>

------------------------------------------------------------------------------
(* JSON text, character by character.  The model covers objects whose      *)
(* values are integers or strings, over printable ASCII characters; these  *)
(* are the texts that save_data writes and the files the model starts from.*)

QUOTE == "\""
BSLASH == "\\"
NL == "\n"
SP == " "
DigitChar == <<"0", "1", "2", "3", "4", "5", "6", "7", "8", "9">>
DigitChars == {DigitChar[i] : i \in 1..10}
DigitVal(c) == (CHOOSE i \in 1..10 : DigitChar[i] = c) - 1

\* str(n) for n >= 0
RECURSIVE Digits(_)
Digits(n) ==
    IF n < 10 THEN <<DigitChar[n + 1]>>
    ELSE Digits(n \div 10) \o <<DigitChar[(n % 10) + 1]>>

\* int.__repr__, which json.dump uses for an int
EncodeInt(n) == IF n < 0 THEN <<"-">> \o Digits(-n) ELSE Digits(n)

\* json.encoder.py_encode_basestring_ascii for printable ASCII
RECURSIVE Escape(_)
Escape(s) ==
    IF s = <<>> THEN <<>>
    ELSE (IF Head(s) \in {QUOTE, BSLASH} THEN <<BSLASH, Head(s)>> ELSE <<Head(s)>>)
         \o Escape(Tail(s))

EncodeStr(s) == <<QUOTE>> \o Escape(s) \o <<QUOTE>>

EncodeValue(v) == IF IsInt(v) THEN EncodeInt(v.n) ELSE EncodeStr(v.s)

Indent == <<SP, SP, SP, SP>>

RECURSIVE EncodeEntries(_)
EncodeEntries(d) ==
    IF d = <<>> THEN <<>>
    ELSE Indent \o EncodeStr(Head(d).key) \o <<":", SP>> \o EncodeValue(Head(d).value)
         \o (IF Tail(d) = <<>> THEN <<>> ELSE <<",", NL>> \o EncodeEntries(Tail(d)))

\* json.dump(stock_data, f, indent=4)
json_dump(d) ==
    IF d = <<>> THEN <<"{", "}">>
    ELSE <<"{", NL>> \o EncodeEntries(d) \o <<NL, "}">>

\* a failed scan: json.JSONDecodeError
Bad == [ok |-> FALSE, val |-> PyNone, end |-> 0]
Good(v, e) == [ok |-> TRUE, val |-> v, end |-> e]

WS == {SP, "\t", NL, "\r"}

\* json.decoder.WHITESPACE.match(s, i).end()
RECURSIVE SkipWs(_, _)
SkipWs(t, i) == IF i <= Len(t) /\ t[i] \in WS THEN SkipWs(t, i + 1) ELSE i

\* json.decoder.py_scanstring, from the character after the opening quote
RECURSIVE ScanString(_, _, _)
ScanString(t, i, acc) ==
    IF i > Len(t) THEN Bad
    ELSE IF t[i] = QUOTE THEN Good(PyStr(acc), i + 1)
    ELSE IF t[i] = BSLASH
    THEN IF i + 1 > Len(t) THEN Bad
         ELSE IF t[i + 1] \in {QUOTE, BSLASH, "/"}
         THEN ScanString(t, i + 2, Append(acc, t[i + 1]))
         ELSE IF t[i + 1] = "n" THEN ScanString(t, i + 2, Append(acc, NL))
         ELSE IF t[i + 1] = "t" THEN ScanString(t, i + 2, Append(acc, "\t"))
         ELSE IF t[i + 1] = "r" THEN ScanString(t, i + 2, Append(acc, "\r"))
         ELSE Bad
    ELSE IF t[i] \in {NL, "\t", "\r"} THEN Bad
    ELSE ScanString(t, i + 1, Append(acc, t[i]))

RECURSIVE ScanDigits(_, _, _)
ScanDigits(t, i, acc) ==
    IF i <= Len(t) /\ t[i] \in DigitChars
    THEN ScanDigits(t, i + 1, 10 * acc + DigitVal(t[i]))
    ELSE [val |-> acc, end |-> i]

\* json.scanner NUMBER_RE, integer part: -?(0|[1-9][0-9]*)
ScanNumber(t, i) ==
    LET neg == t[i] = "-"
        j == IF neg THEN i + 1 ELSE i
    IN  IF j > Len(t) \/ t[j] \notin DigitChars THEN Bad
        ELSE IF t[j] = "0" THEN Good(PyInt(0), j + 1)
        ELSE LET r == ScanDigits(t, j, 0)
             IN  Good(PyInt(IF neg THEN -r.val ELSE r.val), r.end)

\* json.scanner.py_make_scanner._scan_once for a string or a number
ScanValue(t, i) ==
    IF i > Len(t) THEN Bad
    ELSE IF t[i] = QUOTE THEN ScanString(t, i + 1, <<>>)
    ELSE IF t[i] = "-" \/ t[i] \in DigitChars THEN ScanNumber(t, i)
    ELSE Bad

\* the loop of json.decoder.JSONObject, from the character after the opening
\* quote of a key; d holds the pairs read so far
RECURSIVE ScanPairs(_, _, _)
ScanPairs(t, i, d) ==
    LET k == ScanString(t, i, <<>>)
    IN  IF ~k.ok THEN Bad
        ELSE LET c == SkipWs(t, k.end)
             IN  IF c > Len(t) \/ t[c] # ":" THEN Bad
                 ELSE LET v == ScanValue(t, SkipWs(t, c + 1))
                      IN  IF ~v.ok THEN Bad
                          ELSE LET e == SkipWs(t, v.end)
                                   d2 == dict_setitem(d, k.val.s, v.val)
                               IN  IF e > Len(t) THEN Bad
                                   ELSE IF t[e] = "}" THEN Good(d2, e + 1)
                                   ELSE IF t[e] # "," THEN Bad
                                   ELSE LET n == SkipWs(t, e + 1)
                                        IN  IF n > Len(t) \/ t[n] # QUOTE THEN Bad
                                            ELSE ScanPairs(t, n + 1, d2)

\* json.decoder.JSONObject, from the character after the opening brace
ScanObject(t, i) ==
    LET n == SkipWs(t, i)
    IN  IF n > Len(t) THEN Bad
        ELSE IF t[n] = "}" THEN Good(<<>>, n + 1)
        ELSE IF t[n] # QUOTE THEN Bad
        ELSE ScanPairs(t, n + 1, <<>>)

\* json.load(f): JSONDecoder.decode of the whole text
json_load(t) ==
    LET i == SkipWs(t, 1)
        v == IF i <= Len(t) /\ t[i] = "{" THEN ScanObject(t, i + 1) ELSE ScanValue(t, i)
    IN  IF ~v.ok THEN Bad
        ELSE IF SkipWs(t, v.end) # Len(t) + 1 THEN Bad
        ELSE v

Missing == [exists |-> FALSE, text |-> <<>>]
Stored(t) == [exists |-> TRUE, text |-> t]

\* load_data without its except json.JSONDecodeError clause
load_data_uncaught(f) ==
    IF ~f.exists
    THEN Outcome(<<>>, <<>>, <<"WARNING">>, <<>>, "None")
    ELSE LET data == json_load(f.text)
         IN  IF ~data.ok
             THEN Outcome(<<>>, <<>>, <<>>, <<>>, "JSONDecodeError")
             ELSE Outcome(<<>>, <<>>, <<>>, data.val, "None")

load_data(f) ==
    IF ~f.exists
    \* FileNotFoundError
    THEN Outcome(<<>>, <<>>, <<"WARNING">>, <<>>, "None")
    ELSE LET data == json_load(f.text)
         IN  IF ~data.ok
             \* json.JSONDecodeError
             THEN Outcome(<<>>, <<>>, <<"ERROR">>, <<>>, "None")
             ELSE Outcome(<<>>, <<>>, <<>>, data.val, "None")

\* How the file system answers save_data: "ok"; "open" when open() raises
\* IOError, which leaves the file as it was; "write" when the write raises
\* IOError after open() truncated the file and `written` characters reached it,
\* before (early) or after the "saved" notice.
IoOk == [kind |-> "ok", written |-> 0, early |-> FALSE]

\* save_data opening the file with mode "a" for "w"
save_data_append(sd, f, io) ==
    LET text == json_dump(sd)
        before == IF f.exists THEN f.text ELSE <<>>
    IN  IF io.kind = "open"
        THEN [file |-> f, logged |-> <<"ERROR">>, raised |-> "None"]
        ELSE IF io.kind = "write"
        THEN [file |-> Stored(before \o SubSeq(text, 1, io.written)),
              logged |-> IF io.early THEN <<"ERROR">> ELSE <<"INFO", "ERROR">>,
              raised |-> "None"]
        ELSE [file |-> Stored(before \o text), logged |-> <<"INFO">>, raised |-> "None"]

save_data(sd, f, io) ==
    LET text == json_dump(sd)
    IN  IF io.kind = "open"
        THEN [file |-> f, logged |-> <<"ERROR">>, raised |-> "None"]
        ELSE IF io.kind = "write"
        THEN [file |-> Stored(SubSeq(text, 1, io.written)),
              logged |-> IF io.early THEN <<"ERROR">> ELSE <<"INFO", "ERROR">>,
              raised |-> "None"]
        ELSE [file |-> Stored(text), logged |-> <<"INFO">>, raised |-> "None"]

------------------------------------------------------------------------------
(* The calls.                                                              *)

NoCall == [fn |-> "none", item |-> PyNone, qty |-> PyNone, logs |-> FALSE,
           threshold |-> 0, io |-> IoOk]

\* every quantity the call wrote stays within the bound of the model
InBounds(old, new) ==
    \A i \in 1..Len(new) :
        \/ \E j \in 1..Len(old) : old[j] = new[i]
        \/ ~IsInt(new[i].value)
        \/ (new[i].value.n >= -MaxStock /\ new[i].value.n <= MaxStock)

\* inventory.json as main may find it: absent; written by an earlier save_data;
\* written by hand with a quantity in words; cut short
SavedText == json_dump(<<[key |-> apple, value |-> PyInt(10)],
                         [key |-> banana, value |-> PyInt(3)]>>)
WordsText == <<"{", QUOTE>> \o apple \o <<QUOTE, ":", QUOTE>> \o ten \o <<QUOTE, "}">>
CutText == SubSeq(SavedText, 1, 12)
InitialFiles == {Missing, Stored(SavedText), Stored(WordsText), Stored(CutText)}

Init ==
    /\ stock_data = <<>>
    /\ my_logs = <<>>
    /\ file \in InitialFiles
    /\ call = NoCall
    /\ ret = PyNone
    /\ raised = "None"
    /\ logged = <<>>
    /\ stdout = <<>>

\* add_item(stock_data, item, qty, my_logs), or add_item(stock_data, item, qty)
\* when withLogs is FALSE: the entry then goes to a list the call discards
call_add_item(item, qty, withLogs) ==
    LET o == add_item(stock_data, item, qty, IF withLogs THEN my_logs ELSE <<>>)
    IN  /\ withLogs => Len(o.logs) <= MaxLogs
        /\ InBounds(stock_data, o.stock_data)
        /\ stock_data' = o.stock_data
        /\ my_logs' = IF withLogs THEN o.logs ELSE my_logs
        /\ call' = [NoCall EXCEPT !.fn = "add_item", !.item = item, !.qty = qty,
                                  !.logs = withLogs]
        /\ ret' = o.ret
        /\ raised' = o.raised
        /\ logged' = o.logged
        /\ stdout' = <<>>
        /\ UNCHANGED file

call_remove_item(item, qty) ==
    LET o == remove_item(stock_data, item, qty)
    IN  /\ InBounds(stock_data, o.stock_data)
        /\ stock_data' = o.stock_data
        /\ call' = [NoCall EXCEPT !.fn = "remove_item", !.item = item, !.qty = qty]
        /\ ret' = o.ret
        /\ raised' = o.raised
        /\ logged' = o.logged
        /\ stdout' = <<>>
        /\ UNCHANGED <<my_logs, file>>

call_get_qty(item) ==
    /\ call' = [NoCall EXCEPT !.fn = "get_qty", !.item = PyStr(item)]
    /\ ret' = get_qty(stock_data, item)
    /\ raised' = "None"
    /\ logged' = <<>>
    /\ stdout' = <<>>
    /\ UNCHANGED <<stock_data, my_logs, file>>

call_check_low_items(threshold) ==
    LET o == check_low_items(stock_data, threshold)
    IN  /\ call' = [NoCall EXCEPT !.fn = "check_low_items", !.threshold = threshold]
        /\ ret' = o.ret
        /\ raised' = o.raised
        /\ logged' = o.logged
        /\ stdout' = <<>>
        /\ UNCHANGED <<stock_data, my_logs, file>>

call_print_data ==
    /\ call' = [NoCall EXCEPT !.fn = "print_data"]
    /\ ret' = PyNone
    /\ raised' = "None"
    /\ logged' = <<>>
    /\ stdout' = print_data(stock_data)
    /\ UNCHANGED <<stock_data, my_logs, file>>

\* stock_data = load_data("inventory.json")
call_load_data ==
    LET o == load_data(file)
    IN  /\ stock_data' = o.ret
        /\ call' = [NoCall EXCEPT !.fn = "load_data"]
        /\ ret' = o.ret
        /\ raised' = o.raised
        /\ logged' = o.logged
        /\ stdout' = <<>>
        /\ UNCHANGED <<my_logs, file>>

\* the answers of the file system to one save_data
IoAnswers(sd) ==
    {IoOk, [kind |-> "open", written |-> 0, early |-> FALSE]}
    \cup {[kind |-> "write", written |-> w, early |-> e] :
              w \in {0, Len(json_dump(sd)) \div 2, Len(json_dump(sd)) - 1},
              e \in BOOLEAN}

\* save_data(stock_data)
call_save_data(io) ==
    LET o == save_data(stock_data, file, io)
    IN  /\ file' = o.file
        /\ call' = [NoCall EXCEPT !.fn = "save_data", !.io = io]
        /\ ret' = PyNone
        /\ raised' = o.raised
        /\ logged' = o.logged
        /\ stdout' = <<>>
        /\ UNCHANGED <<stock_data, my_logs>>

Thresholds == {DefaultThreshold, 0, 2}

\* The inventory store: main's calls in any order and number, with the
\* arguments above, the log list left to add_item's default.
Next ==
    \/ call_load_data
    \/ \E item \in ItemArgs, qty \in QtyArgs : call_add_item(item, qty, FALSE)
    \/ \E item \in ItemArgs, qty \in QtyArgs : call_remove_item(item, qty)
    \/ \E item \in Items : call_get_qty(item)
    \/ \E threshold \in Thresholds : call_check_low_items(threshold)
    \/ call_print_data

Spec == Init /\ [][Next]_vars

------------------------------------------------------------------------------
(* The mutation log: main passes my_logs to every add_item and ends with   *)
(* save_data; nothing is called after it.                                  *)

\* one item name is enough to tell the entries apart: they differ in quantity
LogItemArgs == {PyStr(apple), PyStr(<<>>), PyInt(123)}

InitLogs == Init /\ file = Missing

Running == call.fn # "save_data"

NextLogs ==
    \/ Running /\ \E item \in LogItemArgs, qty \in QtyArgs, withLogs \in BOOLEAN :
                      call_add_item(item, qty, withLogs)
    \/ Running /\ \E item \in LogItemArgs, qty \in QtyArgs : call_remove_item(item, qty)
    \/ Running /\ \E item \in Items : call_get_qty(item)
    \/ Running /\ call_check_low_items(DefaultThreshold)
    \/ Running /\ call_print_data
    \/ Running /\ \E io \in IoAnswers(stock_data) : call_save_data(io)

SpecLogs == InitLogs /\ [][NextLogs]_vars

\* add_item alone, on an inventory that starts empty, each call with my_logs
NextAdd ==
    \/ \E item \in ItemArgs, qty \in QtyArgs : call_add_item(item, qty, TRUE)
    \/ \E item \in Items : call_get_qty(item)

SpecAdd == InitLogs /\ [][NextAdd]_vars

------------------------------------------------------------------------------
(* Persistence: save_data and load_data on inventories of string names and *)
(* integer quantities, among them names that need escaping and quantities  *)
(* of several digits and of each sign.                                     *)

quoted == <<"a", QUOTE, BSLASH, "b">>
SampleEntries ==
    {[key |-> k, value |-> PyInt(n)] : k \in {apple, banana, quoted}, n \in {-12, 0, 7, 100}}
SampleInventories ==
    {<<>>} \cup {<<e>> : e \in SampleEntries}
    \cup {p \in {<<e1, e2>> : e1 \in SampleEntries, e2 \in SampleEntries} :
              p[1].key # p[2].key}

InitPersist ==
    /\ stock_data \in SampleInventories
    /\ my_logs = <<>>
    /\ file \in InitialFiles
    /\ call = NoCall
    /\ ret = PyNone
    /\ raised = "None"
    /\ logged = <<>>
    /\ stdout = <<>>

NextPersist ==
    \/ \E io \in IoAnswers(stock_data) : call_save_data(io)
    \/ call_load_data

SpecPersist == InitPersist /\ [][NextPersist]_vars

------------------------------------------------------------------------------
(* The properties.                                                         *)

\* a non-empty string item
ValidItem(v) == IsStr(v) /\ v.s # <<>>

\* the same keys with the same quantities, as dict.__eq__ decides
DictEq(a, b) == {a[i] : i \in 1..Len(a)} = {b[i] : i \in 1..Len(b)}

\* C1: every key of the inventory maps to a strictly positive quantity, in
\* every state reached from an empty inventory, or one loaded from a file of
\* positive quantities, by add_item and remove_item calls.
C1_AllQuantitiesPositive ==
    file \in {Missing, Stored(SavedText)} =>
        \A i \in 1..Len(stock_data) :
            IsInt(stock_data[i].value) /\ stock_data[i].value.n > 0

RECURSIVE SumAdded(_, _)
SumAdded(logs, item) ==
    IF logs = <<>> THEN 0
    ELSE (IF Head(logs).item = item THEN Head(logs).qty ELSE 0) + SumAdded(Tail(logs), item)

\* C2: after add_item calls alone on an inventory where the item was absent,
\* get_qty of an item is the sum of the quantities added for that item (the
\* entries of my_logs record them), and each add_item changes the quantity of
\* its own item by the quantity given and of no other item.
C2_AddAccumulates ==
    /\ [](/\ \A item \in Items :
                 get_qty(stock_data, item) = PyInt(SumAdded(my_logs, item))
          /\ call.fn = "get_qty" => ret = PyInt(SumAdded(my_logs, call.item.s)))
    /\ [][(call'.fn = "add_item" /\ ValidItem(call'.item) /\ IsInt(call'.qty)) =>
              \A item \in Items :
                  get_qty(stock_data', item).n =
                      get_qty(stock_data, item).n
                      + (IF item = call'.item.s THEN call'.qty.n ELSE 0)]_vars

C2_Witness ==
    /\ call.fn = "get_qty"
    /\ call.item = PyStr(apple)
    /\ my_logs = <<[qty |-> 3, item |-> apple], [qty |-> 1, item |-> banana],
                   [qty |-> -2, item |-> apple]>>
    /\ ret = PyInt(1)

\* C3: remove_item(inventory, item, q) with item present at integer quantity v
\* and q an integer deletes the key when v - q <= 0 and otherwise keeps it at
\* exactly v - q; afterwards get_qty of the item is positive with the key
\* present, or 0 with the key absent.
C3_RemoveDeletesAtZero ==
    [][(/\ call'.fn = "remove_item"
        /\ ValidItem(call'.item)
        /\ IsInt(call'.qty)
        /\ dict_has(stock_data, call'.item.s)
        /\ IsInt(dict_getitem(stock_data, call'.item.s)))
       => LET item == call'.item.s
              v == dict_getitem(stock_data, item).n
              q == call'.qty.n
          IN  /\ v - q <= 0 => /\ ~dict_has(stock_data', item)
                               /\ get_qty(stock_data', item) = PyInt(0)
              /\ v - q > 0 => /\ dict_has(stock_data', item)
                              /\ get_qty(stock_data', item) = PyInt(v - q)
              /\ \/ dict_has(stock_data', item) /\ get_qty(stock_data', item).n > 0
                 \/ ~dict_has(stock_data', item) /\ get_qty(stock_data', item).n = 0
              /\ raised' = "None"]_vars

\* removing all of an item: the key is gone and the removal is announced
C3_Witness ==
    /\ call.fn = "remove_item"
    /\ call.item = PyStr(apple)
    /\ call.qty = PyInt(1)
    /\ logged = <<"INFO">>
    /\ ~dict_has(stock_data, apple)
    /\ dict_has(stock_data, banana)

\* C4: add_item with an item that is not a non-empty string, or a quantity that
\* is not an integer, changes neither the inventory nor the log, signals a
\* warning and returns normally.
C4_InvalidAddIsNoOp ==
    [][(call'.fn = "add_item" /\ (~ValidItem(call'.item) \/ ~IsInt(call'.qty)))
       => /\ stock_data' = stock_data
          /\ my_logs' = my_logs
          /\ logged' = <<"WARNING">>
          /\ raised' = "None"]_vars

\* add_item(stock_data, 123, "ten", my_logs) after two entries were logged
C4_Witness ==
    /\ call.fn = "add_item"
    /\ call.item = PyInt(123)
    /\ call.qty = PyStr(ten)
    /\ call.logs
    /\ logged = <<"WARNING">>
    /\ Len(my_logs) = 2
    /\ dict_has(stock_data, apple)

\* C5: remove_item with a valid item name that is absent changes nothing,
\* creates no key for the item, signals a warning and raises nothing.
C5_RemoveAbsentIsNoOp ==
    [][(/\ call'.fn = "remove_item"
        /\ ValidItem(call'.item)
        /\ ~dict_has(stock_data, call'.item.s))
       => /\ stock_data' = stock_data
          /\ ~dict_has(stock_data', call'.item.s)
          /\ logged' = <<"WARNING">>
          /\ raised' = "None"]_vars

\* remove_item(stock_data, "banana", 1) on an inventory that holds only apple
C5_Witness ==
    /\ call.fn = "remove_item"
    /\ call.item = PyStr(banana)
    /\ call.qty = PyInt(1)
    /\ logged = <<"WARNING">>
    /\ Keys(stock_data) = <<apple>>

\* the place of a key in the inventory's iteration order
Position(sd, k) == CHOOSE i \in 1..Len(sd) : sd[i].key = k

\* C6: check_low_items(inventory, threshold) returns exactly the items whose
\* quantity is strictly below threshold (a quantity equal to it is excluded),
\* each once, in the inventory's iteration order, and leaves the inventory
\* unchanged; threshold 5 on apple=10, banana=3 gives the list of banana alone.
C6_LowItemsExact ==
    /\ []((call.fn = "check_low_items" /\ raised = "None") =>
           /\ \A i \in 1..Len(stock_data) :
                  (stock_data[i].value.n < call.threshold)
                      <=> (\E j \in 1..Len(ret) : ret[j] = stock_data[i].key)
           /\ \A j \in 1..Len(ret) : dict_has(stock_data, ret[j])
           /\ \A j1, j2 \in 1..Len(ret) :
                  j1 < j2 => Position(stock_data, ret[j1]) < Position(stock_data, ret[j2])
           /\ \A i \in 1..Len(stock_data) :
                  stock_data[i].value.n = call.threshold =>
                      \A j \in 1..Len(ret) : ret[j] # stock_data[i].key
           /\ (/\ call.threshold = DefaultThreshold
               /\ stock_data = <<[key |-> apple, value |-> PyInt(10)],
                                 [key |-> banana, value |-> PyInt(3)]>>)
                  => ret = <<banana>>)
    /\ [][call'.fn = "check_low_items" => stock_data' = stock_data]_vars

\* the default threshold on the inventory loaded from apple=10, banana=3
C6_Witness ==
    /\ call.fn = "check_low_items"
    /\ call.threshold = DefaultThreshold
    /\ stock_data = <<[key |-> apple, value |-> PyInt(10)],
                      [key |-> banana, value |-> PyInt(3)]>>
    /\ ret = <<banana>>

\* C7: save_data(inventory, path) that wrote the file, followed by
\* load_data(path), returns a mapping with the keys and quantities of the saved
\* one, and save_data does not change the inventory in memory.
C7_SaveLoadRoundTrip ==
    /\ [][(call.fn = "save_data" /\ call.io = IoOk /\ call'.fn = "load_data") =>
              /\ DictEq(ret', stock_data)
              /\ raised' = "None"
              /\ logged' = <<>>]_vars
    /\ [][call'.fn = "save_data" => stock_data' = stock_data]_vars

\* an inventory with a name that needs escaping and a negative quantity, read
\* back from the file save_data wrote
C7_Witness ==
    /\ call.fn = "load_data"
    /\ stock_data = <<[key |-> quoted, value |-> PyInt(-12)],
                      [key |-> apple, value |-> PyInt(100)]>>
    /\ file = Stored(json_dump(stock_data))
    /\ ret = stock_data

\* C8: load_data returns the stored mapping when the file exists and parses;
\* it returns an empty mapping with a warning when the file is missing and with
\* an error when its content is not valid JSON; it raises in neither case.
C8_LoadDataTotal ==
    call.fn = "load_data" =>
        /\ raised = "None"
        /\ ~file.exists => (ret = <<>> /\ logged = <<"WARNING">>)
        /\ (file.exists /\ ~json_load(file.text).ok) =>
               (ret = <<>> /\ logged = <<"ERROR">>)
        /\ (file.exists /\ json_load(file.text).ok) =>
               (ret = json_load(file.text).val /\ logged = <<>>)
        /\ file = Stored(SavedText) =>
               ret = <<[key |-> apple, value |-> PyInt(10)],
                       [key |-> banana, value |-> PyInt(3)]>>
        /\ file = Stored(WordsText) => ret = <<[key |-> apple, value |-> PyStr(ten)]>>
        /\ (/\ file.exists
            /\ \E d \in SampleInventories :
                   /\ Len(file.text) < Len(json_dump(d))
                   /\ file.text = SubSeq(json_dump(d), 1, Len(file.text)))
               => (ret = <<>> /\ logged = <<"ERROR">>)

\* load_data of a file that a failed save_data left half written
C8_Witness ==
    /\ call.fn = "load_data"
    /\ file.exists
    /\ file.text # CutText
    /\ Len(file.text) > 0
    /\ logged = <<"ERROR">>
    /\ ret = <<>>
    /\ raised = "None"

\* C9: no public operation lets an exception escape to its caller, whatever
\* the arguments and whatever inventory load_data returned.
C9_NoExceptionSurfaces == raised = "None"

\* C10: the mutation log is append-only and records the adds in call order: an
\* add_item that succeeds with the log appends exactly one entry at its end;
\* every other call, a rejected add_item included, leaves the log as it was.
C10_LogAppendOnly ==
    [][IF /\ call'.fn = "add_item"
          /\ call'.logs
          /\ ValidItem(call'.item)
          /\ IsInt(call'.qty)
          /\ raised' = "None"
       THEN /\ Len(my_logs') = Len(my_logs) + 1
            /\ SubSeq(my_logs', 1, Len(my_logs)) = my_logs
            /\ my_logs'[Len(my_logs')] = [qty |-> call'.qty.n, item |-> call'.item.s]
       ELSE my_logs' = my_logs]_vars

\* three adds logged in call order, the last of them just made
C10_Witness ==
    /\ call.fn = "add_item"
    /\ call.logs
    /\ call.qty = PyInt(1)
    /\ my_logs = <<[qty |-> 3, item |-> apple], [qty |-> -2, item |-> apple],
                   [qty |-> 1, item |-> apple]>>

====
